---------------------------- MODULE Spec2Model ----------------------------
(***************************************************************************)
(* railway-result: the Result variants (ok / err), their map operation     *)
(* (SuccessImpl.map / FailureImpl.map) and the ResultChain builder (Do,    *)
(* map, async, ensure, chain, chainAsync, run).                            *)
(*                                                                         *)
(* JavaScript values are records tagged by the field k.  Promises are      *)
(* modelled by their settlement (st, val); an `await` is a suspension      *)
(* point: the function stops at pc = "await" and a later step resumes it.  *)
(***************************************************************************)
EXTENDS Integers, Sequences, FiniteSets, TLC

VARIABLES
    nodes,      \* the ResultChain instances created so far, each with its wrapped promise
    runs,       \* the promises returned by the run() calls made so far
    recv,       \* Result.map called directly: the receiver Result
    mfn,        \* Result.map called directly: the function passed
    mout        \* Result.map called directly: the call's position and its returned promise

vars == <<nodes, runs, recv, mfn, mout>>

-----------------------------------------------------------------------------
(* Bounds *)

MaxNodes == 3       \* ResultChain instances per behaviour, the one made by Do included
MaxRuns == 1        \* run() calls per behaviour
MaxRepeatedRuns == 2    \* run() calls per behaviour where run() is called repeatedly
MaxConcurrentNodes == 4 \* ResultChain instances per behaviour of two concurrent chains

-----------------------------------------------------------------------------
(* JavaScript values *)

Prim(p) == [k |-> "prim", p |-> p]
Undefined == Prim("undefined")
Null == Prim("null")
True == Prim("true")
False == Prim("false")
Num(n) == [k |-> "num", n |-> n]
Str(s) == [k |-> "str", s |-> s]
Obj(id) == [k |-> "obj", id |-> id]
ErrorObj(m) == [k |-> "error", message |-> m]
Tagged(s, d, e) == [k |-> "tagged", success |-> s, data |-> d, error |-> e]
Deferred(st, v) == [k |-> "promise", st |-> st, val |-> v]

TypeError == ErrorObj("TypeError")

\* a value used in a condition: false, 0, '', null, undefined are falsy
Truthy(x) ==
    CASE x.k = "prim" -> x.p = "true"
      [] x.k = "num" -> x.n # 0
      [] x.k = "str" -> x.s # ""
      [] OTHER -> TRUE

\* typeof x === 'object' (typeof null is 'object' too)
TypeofObject(x) == x.k \notin {"num", "str"} /\ (x.k = "prim" => x.p = "null")

\* 'then' in x, for an object x
HasThen(x) == x.k = "promise"

\* 'success' in x, for an object x
HasSuccess(x) == x.k \in {"ok", "err", "tagged"}

\* property access x.name throws on null and undefined
Nullish(x) == x \in {Null, Undefined}

ok(value) == [k |-> "ok", data |-> value]

err(error) == [k |-> "err", error |-> error]

IsResult(x) == x.k \in {"ok", "err"}

\* r.success, for a non-nullish r
SuccessField(r) ==
    CASE r.k = "ok" -> True
      [] r.k = "err" -> False
      [] r.k = "tagged" -> r.success
      [] OTHER -> Undefined

\* r.data, for a non-nullish r
DataField(r) ==
    CASE r.k = "ok" -> r.data
      [] r.k = "tagged" -> r.data
      [] OTHER -> Undefined

isOk(result) == SuccessField(result)

\* isErr without the negation
isErr_copy(result) == SuccessField(result)

isErr(result) == IF Truthy(SuccessField(result)) THEN False ELSE True

-----------------------------------------------------------------------------
(* The functions callers pass in.  Apply gives what a call does: it        *)
(* returns a value or throws one.                                          *)

Fn(f, arg) == [f |-> f, arg |-> arg]

Return(v) == [t |-> "return", val |-> v]
Throw(v) == [t |-> "throw", val |-> v]

\* Promise.resolve(x)
PromiseResolve(x) == IF HasThen(x) THEN x ELSE Deferred("fulfilled", x)

\* r.error, for a non-nullish r
ErrorField(r) ==
    CASE r.k = "err" -> r.error
      [] r.k = "tagged" -> r.error
      [] OTHER -> Undefined

\* zodToResult trusting the success flag alone
zodToResult_ignores_data(zodResult) ==
    IF Truthy(SuccessField(zodResult))
    THEN ok(DataField(zodResult))
    ELSE err(IF Truthy(ErrorField(zodResult)) THEN ErrorField(zodResult)
             ELSE ErrorObj("Validation failed"))

\* zodToResult: ok(data) when success is truthy and data is not undefined, else
\* err(error || new Error("Validation failed"))
zodToResult(zodResult) ==
    IF Truthy(SuccessField(zodResult)) /\ DataField(zodResult) # Undefined
    THEN ok(DataField(zodResult))
    ELSE err(IF Truthy(ErrorField(zodResult)) THEN ErrorField(zodResult)
             ELSE ErrorObj("Validation failed"))

\* UserSchema.safeParse(input): {success: true, data} for an object that fits the
\* schema, {success: false, error} for anything else
safeParse(input) ==
    IF input.k = "obj" THEN Tagged(True, input, Undefined)
    ELSE Tagged(False, Undefined, ErrorObj("zod"))

\* String(x), on the values the model uses
ToStr(x) ==
    CASE x.k = "num" -> Str(<<"0", "1", "2", "3">>[x.n + 1])
      [] x.k = "str" -> x
      [] x.k = "prim" -> Str(x.p)
      [] OTHER -> Str("[object Object]")

Apply(fn, x) ==
    CASE fn.f = "const" -> Return(fn.arg)                       \* _ => arg
      [] fn.f = "throw" -> Throw(fn.arg)                        \* _ => { throw arg }
      [] fn.f = "id" -> Return(x)                               \* x => x
      [] fn.f = "inc" ->                                        \* x => x + 1, on small numbers
            Return(IF x.k = "num" THEN Num((x.n + 1) % 4) ELSE x)
      [] fn.f = "positive" ->                                   \* x => x > 0
            Return(IF x.k = "num" /\ x.n > 0 THEN True ELSE False)
      [] fn.f = "wrap" -> Return(ok(x))                         \* x => ok(x)
      [] fn.f = "defer" -> Return(PromiseResolve(x))            \* async x => x
      [] fn.f = "deferWrap" -> Return(Deferred("fulfilled", ok(x)))  \* async x => ok(x)
      [] fn.f = "check" ->                                      \* x => x > 0 ? ok(x) : err('F')
            Return(IF x.k = "num" /\ x.n > 0 THEN ok(x) ELSE err(Str("F")))
      [] fn.f = "deferCheck" ->                                 \* async x => x > 0 ? ok(x) : err('F')
            Return(Deferred("fulfilled", IF x.k = "num" /\ x.n > 0 THEN ok(x) ELSE err(Str("F"))))
      [] fn.f = "toStr" -> Return(ToStr(x))                     \* x => String(x)
      [] fn.f = "safeParse" -> Return(safeParse(x))             \* UserSchema.safeParse
      [] fn.f = "safeParseAsync" ->                             \* UserSchema.safeParseAsync
            Return(Deferred("fulfilled", safeParse(x)))
      [] fn.f = "zodToResult" ->                                \* parseResult => zodToResult(parseResult)
            IF Nullish(x) THEN Throw(TypeError) ELSE Return(zodToResult(x))
      [] fn.f = "greet" ->                                      \* user => ok(`Hello, ${user.name}!`)
            IF Nullish(x) THEN Throw(TypeError) ELSE Return(ok(Str("Hello")))


-----------------------------------------------------------------------------
(* Promises.  A promise record says where the async function that will     *)
(* settle it stands (pc) and, once settled, how (st, val).  While pc is    *)
(* "await" or "adopt", val holds the thenable being waited for.            *)

Idle == [pc |-> "idle", st |-> "pending", val |-> Undefined]
Settled(st, v) == [pc |-> "settled", st |-> st, val |-> v]
Awaiting(thenable) == [pc |-> "await", st |-> "pending", val |-> thenable]
Adopting(thenable) == [pc |-> "adopt", st |-> "pending", val |-> thenable]

\* a promise resolved with v: it follows v when v is a thenable
Resolved(v) == IF HasThen(v) THEN Adopting(v) ELSE Settled("fulfilled", v)

\* a promise that followed a thenable, once that thenable has settled
Adopted(thenable) == Settled(thenable.st, thenable.val)

-----------------------------------------------------------------------------
(* result.ts: SuccessImpl.map and FailureImpl.map *)

\* result && typeof result === 'object' && 'then' in result
IsThenable(result) == Truthy(result) /\ TypeofObject(result) /\ HasThen(result)

\* result && typeof result === 'object' && 'success' in result
CarriesTag(result) == Truthy(result) /\ TypeofObject(result) /\ HasSuccess(result)

\* what a call of a method evaluated to, and how often it called the function it
\* was given: ret is "promise" for a method declared async (its body's outcome
\* settles the promise) and "value" for a method that returned val itself
Call(ret, promise, calls) ==
    [ret |-> ret, pc |-> promise.pc, st |-> promise.st, val |-> promise.val, calls |-> calls]

\* SuccessImpl.map without its try/catch: what fn throws rejects the promise
SuccessImpl_map_uncaught(data, fn) ==
    LET call == Apply(fn, data)
        result == call.val
    IN  Call("promise",
             IF call.t = "throw" THEN Settled("rejected", call.val)
             ELSE IF IsThenable(result) THEN Awaiting(result)
             ELSE IF CarriesTag(result) THEN Resolved(result)
             ELSE Resolved(ok(result)),
             1)

\* SuccessImpl.map returning a plain result as it is, not wrapped by ok
SuccessImpl_map_unwrapped(data, fn) ==
    LET call == Apply(fn, data)
        result == call.val
    IN  Call("promise",
             IF call.t = "throw" THEN Resolved(err(call.val))
             ELSE IF IsThenable(result) THEN Awaiting(result)
             ELSE Resolved(result),
             1)

\* SuccessImpl.map without `result &&` in its tests: typeof null is 'object', so
\* `'then' in null` throws a TypeError, which the catch turns into a Failure
SuccessImpl_map_unguarded(data, fn) ==
    LET call == Apply(fn, data)
        result == call.val
    IN  Call("promise",
             IF call.t = "throw" THEN Resolved(err(call.val))
             ELSE IF result = Null THEN Resolved(err(TypeError))
             ELSE IF IsThenable(result) THEN Awaiting(result)
             ELSE IF CarriesTag(result) THEN Resolved(result)
             ELSE Resolved(ok(result)),
             1)

\* SuccessImpl.map flattening only what ok and err made: another object with a
\* `success` field is wrapped
SuccessImpl_map_instances_only(data, fn) ==
    LET call == Apply(fn, data)
        result == call.val
    IN  Call("promise",
             IF call.t = "throw" THEN Resolved(err(call.val))
             ELSE IF IsThenable(result) THEN Awaiting(result)
             ELSE IF IsResult(result) THEN Resolved(result)
             ELSE Resolved(ok(result)),
             1)

\* SuccessImpl.map without the test for a returned Result: it wraps every result
SuccessImpl_map_always_wraps(data, fn) ==
    LET call == Apply(fn, data)
        result == call.val
    IN  Call("promise",
             IF call.t = "throw" THEN Resolved(err(call.val))
             ELSE IF IsThenable(result) THEN Awaiting(result)
             ELSE Resolved(ok(result)),
             1)

\* SuccessImpl.map from the call up to its first await, or to its return
SuccessImpl_map(data, fn) ==
    LET call == Apply(fn, data)
        result == call.val
    IN  Call("promise",
             IF call.t = "throw" THEN Resolved(err(call.val))
             ELSE IF IsThenable(result) THEN Awaiting(result)
             ELSE IF CarriesTag(result) THEN Resolved(result)
             ELSE Resolved(ok(result)),
             1)

\* SuccessImpl.map with the await outside the try block: a rejection is not caught
SuccessImpl_map_resume_uncaught(thenable) ==
    LET awaitedResult == thenable.val
    IN  IF thenable.st = "rejected" THEN Settled("rejected", thenable.val)
        ELSE IF CarriesTag(awaitedResult) THEN Resolved(awaitedResult)
        ELSE Resolved(ok(awaitedResult))

\* SuccessImpl.map without the test for an awaited Result: it wraps every awaited value
SuccessImpl_map_resume_always_wraps(thenable) ==
    IF thenable.st = "rejected" THEN Resolved(err(thenable.val))
    ELSE Resolved(ok(thenable.val))

\* SuccessImpl.map from `await result` on, once the awaited thenable has settled
SuccessImpl_map_resume(thenable) ==
    LET awaitedResult == thenable.val
    IN  IF thenable.st = "rejected" THEN Resolved(err(thenable.val))
        ELSE IF CarriesTag(awaitedResult) THEN Resolved(awaitedResult)
        ELSE Resolved(ok(awaitedResult))

\* FailureImpl.map treating the error as a payload to transform
FailureImpl_map_invokes(this, fn) == SuccessImpl_map(this.error, fn)

\* FailureImpl.map: fn is not called
FailureImpl_map(this, fn) == Call("promise", Resolved(this), 0)

\* SuccessImpl.mapAsync: return this.map(fn)
SuccessImpl_mapAsync(data, fn) == SuccessImpl_map(data, fn)

\* FailureImpl.mapAsync: not declared async, it returns this itself
FailureImpl_mapAsync(this, fn) == Call("value", Resolved(this), 0)

-----------------------------------------------------------------------------
(* Result.map called directly on a Result *)

Errors == {Str("X"), ErrorObj("boom"), Undefined}

PlainValues ==
    {Num(0), Num(1), Num(2), Str(""), Str("a"), True, False, Null, Undefined, Obj("a")}

TaggedValues ==
    {Tagged(True, Obj("user"), Undefined), Tagged(False, Undefined, ErrorObj("zod"))}

ResultValues == {ok(Num(2)), ok(Undefined), err(Str("F")), err(Null)}

SyncValues == PlainValues \cup TaggedValues \cup ResultValues

DeferredValues ==
    {Deferred("fulfilled", x) : x \in SyncValues} \cup {Deferred("rejected", x) : x \in Errors}

Receivers ==
    {ok(v) : v \in {Num(1), Num(0), Null, Obj("a"), ok(Num(1)), Tagged(True, Obj("user"), Undefined),
                    Deferred("fulfilled", Num(1)), Deferred("fulfilled", ok(Num(1))),
                    Deferred("rejected", Str("X"))}}
    \cup {err(e) : e \in {Str("E"), Undefined, ErrorObj("boom"), ok(Num(1))}}

MapFns ==
    {Fn("const", x) : x \in SyncValues \cup DeferredValues}
    \cup {Fn("throw", x) : x \in Errors}
    \cup {Fn(f, Undefined) : f \in {"id", "inc", "wrap", "defer", "deferWrap"}}

\* mout before the call
NotCalled == Call("none", Idle, 0)

InitResult ==
    /\ recv \in Receivers
    /\ mfn \in MapFns
    /\ mout = NotCalled
    /\ nodes = <<>>
    /\ runs = <<>>

\* recv.map(mfn)
CallMap ==
    /\ mout.pc = "idle"
    /\ mout' = IF recv.k = "ok" THEN SuccessImpl_map(recv.data, mfn) ELSE FailureImpl_map(recv, mfn)
    /\ UNCHANGED <<recv, mfn, nodes, runs>>

\* the thenable awaited inside SuccessImpl.map settles and the function goes on
ResumeMap ==
    /\ mout.pc = "await"
    /\ mout' = Call(mout.ret, SuccessImpl_map_resume(mout.val), mout.calls)
    /\ UNCHANGED <<recv, mfn, nodes, runs>>

NextResult == CallMap \/ ResumeMap

SpecResult == InitResult /\ [][NextResult]_vars

-----------------------------------------------------------------------------
(* do-notation.ts: the callbacks the operators of ResultChain pass to      *)
(* this.result.then, applied to the value r the wrapped promise fulfilled  *)
(* with.  Each gives the promise of the new ResultChain, up to the first   *)
(* suspension of the callback.                                             *)

\* r => r.map(fn): r.map is SuccessImpl.map or FailureImpl.map when r was made by
\* ok or err, and there is no such method on any other value
map_callback(r, fn) ==
    IF ~IsResult(r) THEN Call("promise", Settled("rejected", TypeError), 0)
    ELSE IF r.k = "ok" THEN SuccessImpl_map(r.data, fn)
    ELSE FailureImpl_map(r, fn)

\* ensure's callback evaluating the predicate before it looks at the state of r
ensure_callback_predicate_first(r, predicate, errorMsg) ==
    IF Nullish(r) THEN Call("promise", Settled("rejected", TypeError), 0)
    ELSE LET call == Apply(predicate, DataField(r))
         IN  Call("promise",
                  IF call.t = "throw" THEN Settled("rejected", call.val)
                  ELSE IF Truthy(isOk(r)) /\ ~Truthy(call.val) THEN Resolved(err(errorMsg))
                  ELSE Resolved(r),
                  1)

\* ensure's callback with the two arms of its conditional swapped
ensure_callback_inverted(r, predicate, errorMsg) ==
    IF Nullish(r) THEN Call("promise", Settled("rejected", TypeError), 0)
    ELSE IF Truthy(isOk(r))
    THEN LET call == Apply(predicate, DataField(r))
         IN  Call("promise",
                  IF call.t = "throw" THEN Settled("rejected", call.val)
                  ELSE IF Truthy(call.val) THEN Resolved(err(errorMsg))
                  ELSE Resolved(r),
                  1)
    ELSE Call("promise", Resolved(r), 0)

\* ensure's callback with a try/catch around the predicate: what it throws becomes
\* the payload of a Failure
ensure_callback_caught(r, predicate, errorMsg) ==
    IF Nullish(r) THEN Call("promise", Settled("rejected", TypeError), 0)
    ELSE IF Truthy(isOk(r))
    THEN LET call == Apply(predicate, DataField(r))
         IN  Call("promise",
                  IF call.t = "throw" THEN Resolved(err(call.val))
                  ELSE IF Truthy(call.val) THEN Resolved(r)
                  ELSE Resolved(err(errorMsg)),
                  1)
    ELSE Call("promise", Resolved(r), 0)

\* async r => { if (isOk(r)) { return predicate(r.data) ? r : err(errorMsg); } return r; }
ensure_callback(r, predicate, errorMsg) ==
    IF Nullish(r) THEN Call("promise", Settled("rejected", TypeError), 0)
    ELSE IF Truthy(isOk(r))
    THEN LET call == Apply(predicate, DataField(r))
         IN  Call("promise",
                  IF call.t = "throw" THEN Settled("rejected", call.val)
                  ELSE IF Truthy(call.val) THEN Resolved(r)
                  ELSE Resolved(err(errorMsg)),
                  1)
    ELSE Call("promise", Resolved(r), 0)

\* chain's callback without its final `return r`: a failure is dropped
chain_callback_drops_failure(r, fn) ==
    IF Nullish(r) THEN Call("promise", Settled("rejected", TypeError), 0)
    ELSE IF Truthy(isOk(r))
    THEN LET call == Apply(fn, DataField(r))
         IN  Call("promise",
                  IF call.t = "throw" THEN Settled("rejected", call.val) ELSE Resolved(call.val),
                  1)
    ELSE Call("promise", Resolved(Undefined), 0)

\* async r => { if (isOk(r)) { const nextResult = fn(r.data); return nextResult; } return r; }
chain_callback(r, fn) ==
    IF Nullish(r) THEN Call("promise", Settled("rejected", TypeError), 0)
    ELSE IF Truthy(isOk(r))
    THEN LET call == Apply(fn, DataField(r))
         IN  Call("promise",
                  IF call.t = "throw" THEN Settled("rejected", call.val) ELSE Resolved(call.val),
                  1)
    ELSE Call("promise", Resolved(r), 0)

\* async r => { if (isOk(r)) { const nextResult = await fn(r.data); return nextResult; } return r; }
chainAsync_callback(r, fn) ==
    IF Nullish(r) THEN Call("promise", Settled("rejected", TypeError), 0)
    ELSE IF Truthy(isOk(r))
    THEN LET call == Apply(fn, DataField(r))
         IN  Call("promise",
                  IF call.t = "throw" THEN Settled("rejected", call.val)
                  ELSE Awaiting(PromiseResolve(call.val)),
                  1)
    ELSE Call("promise", Resolved(r), 0)

\* chainAsync's callback wrapping the awaited Result in a new Success
chainAsync_resume_wraps(thenable) ==
    IF thenable.st = "rejected" THEN Settled("rejected", thenable.val)
    ELSE Resolved(ok(thenable.val))

\* chainAsync's callback from `await fn(r.data)` on, once the awaited promise has settled
chainAsync_resume(thenable) ==
    IF thenable.st = "rejected" THEN Settled("rejected", thenable.val)
    ELSE Resolved(thenable.val)

-----------------------------------------------------------------------------
(* The chains of a program: nodes[1] is the ResultChain Do made; every     *)
(* other node was made by an operator called on nodes[parent].  Spec       *)
(* builds one fluent chain, Do(v).op(..).op(..): each operator is called   *)
(* on the ResultChain the previous one returned.                           *)

InitialValues == {Num(0), Num(1)}

ChainMapFns ==
    {Fn("inc", Undefined), Fn("throw", Str("X")), Fn("const", err(Str("F"))),
     Fn("const", Tagged(True, Obj("user"), Undefined))}

ChainAsyncMapFns == {Fn("defer", Undefined), Fn("const", Deferred("rejected", Str("X")))}

Predicates == {Fn("positive", Undefined), Fn("throw", Str("X"))}

ErrorMsgs == {Str("E1"), Str("E2")}

ChainFns == {Fn("check", Undefined), Fn("throw", Str("X"))}

ChainAsyncFns ==
    {Fn("deferCheck", Undefined), Fn("const", Deferred("rejected", Str("X"))), Fn("throw", Str("X"))}

Node(parent, op, fn, errorMsg, promise, calls) ==
    [parent |-> parent, op |-> op, fn |-> fn, errorMsg |-> errorMsg,
     pc |-> promise.pc, st |-> promise.st, val |-> promise.val, calls |-> calls]

\* Do without ok: the initial value itself is the wrapped promise's value
Do_unwrapped(initialValue) ==
    Node(0, "Do", Fn("none", Undefined), Undefined, Resolved(initialValue), 0)

\* Do(initialValue): new ResultChain(Promise.resolve(ok(initialValue)))
Do(initialValue) == Node(0, "Do", Fn("none", Undefined), Undefined, Resolved(ok(initialValue)), 0)

Init ==
    /\ \E initialValue \in InitialValues : nodes = <<Do(initialValue)>>
    /\ runs = <<>>
    /\ recv = ok(Undefined)
    /\ mfn = Fn("none", Undefined)
    /\ mout = NotCalled

\* a builder that would extend itself: the operator puts the new step on the chain
\* it was called on, and returns that chain
Attach_in_place(p, op, fn, errorMsg) ==
    /\ Len(nodes) < MaxNodes
    /\ nodes' = Append([nodes EXCEPT ![p] = Node(@.parent, op, fn, errorMsg, Idle, 0)],
                       Node(p, op, fn, errorMsg, Idle, 0))
    /\ UNCHANGED <<runs, recv, mfn, mout>>

\* new ResultChain(this.result.then(callback)): the callback runs later, in Then
Attach(p, op, fn, errorMsg) ==
    /\ Len(nodes) < MaxNodes
    /\ nodes' = Append(nodes, Node(p, op, fn, errorMsg, Idle, 0))
    /\ UNCHANGED <<runs, recv, mfn, mout>>

map(p, fn) == Attach(p, "map", fn, Undefined)

async(p, fn) == Attach(p, "async", fn, Undefined)

ensure(p, predicate, errorMsg) == Attach(p, "ensure", predicate, errorMsg)

chain(p, fn) == Attach(p, "chain", fn, Undefined)

chainAsync(p, fn) == Attach(p, "chainAsync", fn, Undefined)

\* the callback of node i, applied to r
Callback(i, r) ==
    LET n == nodes[i]
    IN  CASE n.op \in {"map", "async"} -> map_callback(r, n.fn)
          [] n.op = "ensure" -> ensure_callback(r, n.fn, n.errorMsg)
          [] n.op = "chain" -> chain_callback(r, n.fn)
          [] n.op = "chainAsync" -> chainAsync_callback(r, n.fn)

RECURSIVE NearestSettled(_)
\* the nearest node at or above p whose promise has settled (the one Do made has)
NearestSettled(p) == IF nodes[p].pc = "settled" THEN p ELSE NearestSettled(nodes[p].parent)

\* a lazy chain: a step's callback would run only once run() has been called on
\* its own chain or on one derived from it
Then_lazy(i) ==
    /\ nodes[i].pc = "idle"
    /\ nodes[i].parent > 0
    /\ nodes[nodes[i].parent].pc = "settled"
    /\ \E j \in 1..Len(runs) : runs[j].node >= i
    /\ LET n == nodes[i]
           parent == nodes[n.parent]
           c == Callback(i, parent.val)
       IN  nodes' = [nodes EXCEPT ![i] =
                IF parent.st = "rejected"
                THEN Node(n.parent, n.op, n.fn, n.errorMsg, Settled("rejected", parent.val), n.calls)
                ELSE Node(n.parent, n.op, n.fn, n.errorMsg, c, n.calls + c.calls)]
    /\ UNCHANGED <<runs, recv, mfn, mout>>

\* a callback that does not wait for the promise it was attached to: it runs on what
\* the nearest settled promise above it holds
Then_unordered(i) ==
    /\ nodes[i].pc = "idle"
    /\ nodes[i].parent > 0
    /\ LET n == nodes[i]
           source == nodes[NearestSettled(n.parent)]
           c == Callback(i, source.val)
       IN  nodes' = [nodes EXCEPT ![i] =
                IF source.st = "rejected"
                THEN Node(n.parent, n.op, n.fn, n.errorMsg, Settled("rejected", source.val), n.calls)
                ELSE Node(n.parent, n.op, n.fn, n.errorMsg, c, n.calls + c.calls)]
    /\ UNCHANGED <<runs, recv, mfn, mout>>

\* the promise of node i's parent has settled: then() runs the callback when it
\* fulfilled, and passes the rejection on without running it when it rejected
Then(i) ==
    /\ nodes[i].pc = "idle"
    /\ nodes[i].parent > 0
    /\ nodes[nodes[i].parent].pc = "settled"
    /\ LET n == nodes[i]
           parent == nodes[n.parent]
           c == Callback(i, parent.val)
       IN  nodes' = [nodes EXCEPT ![i] =
                IF parent.st = "rejected"
                THEN Node(n.parent, n.op, n.fn, n.errorMsg, Settled("rejected", parent.val), n.calls)
                ELSE Node(n.parent, n.op, n.fn, n.errorMsg, c, n.calls + c.calls)]
    /\ UNCHANGED <<runs, recv, mfn, mout>>

\* the thenable node i's callback waits for has settled
Resume(i) ==
    /\ nodes[i].pc \in {"await", "adopt"}
    /\ LET n == nodes[i]
           promise == IF n.pc = "adopt" THEN Adopted(n.val)
                      ELSE IF n.op = "chainAsync" THEN chainAsync_resume(n.val)
                      ELSE SuccessImpl_map_resume(n.val)
       IN  nodes' = [nodes EXCEPT ![i] = Node(n.parent, n.op, n.fn, n.errorMsg, promise, n.calls)]
    /\ UNCHANGED <<runs, recv, mfn, mout>>

\* async run() { return this.result; }: a new promise that follows this.result
RunCall(i, limit) ==
    /\ Len(runs) < limit
    /\ runs' = Append(runs, [node |-> i, pc |-> "adopt", st |-> "pending", val |-> Undefined])
    /\ UNCHANGED <<nodes, recv, mfn, mout>>

run(i) == RunCall(i, MaxRuns)

\* a run() that would execute the steps itself: settling its promise invokes the
\* step's function once more
RunSettle_reruns(j) ==
    /\ runs[j].pc = "adopt"
    /\ nodes[runs[j].node].pc = "settled"
    /\ LET n == nodes[runs[j].node]
       IN  /\ runs' = [runs EXCEPT ![j] = [node |-> runs[j].node, pc |-> "settled", st |-> n.st, val |-> n.val]]
           /\ nodes' = [nodes EXCEPT ![runs[j].node].calls = IF n.op = "Do" THEN @ ELSE @ + 1]
    /\ UNCHANGED <<recv, mfn, mout>>

\* the promise a run() call returned settles as the wrapped promise did
RunSettle(j) ==
    /\ runs[j].pc = "adopt"
    /\ nodes[runs[j].node].pc = "settled"
    /\ LET n == nodes[runs[j].node]
       IN  runs' = [runs EXCEPT ![j] = [node |-> runs[j].node, pc |-> "settled", st |-> n.st, val |-> n.val]]
    /\ UNCHANGED <<nodes, recv, mfn, mout>>

\* the ResultChain the next operator is called on: the one the last operator returned
Last == Len(nodes)

Next ==
    \/ \E fn \in ChainMapFns : map(Last, fn)
    \/ \E fn \in ChainAsyncMapFns : async(Last, fn)
    \/ \E predicate \in Predicates, errorMsg \in ErrorMsgs : ensure(Last, predicate, errorMsg)
    \/ \E fn \in ChainFns : chain(Last, fn)
    \/ \E fn \in ChainAsyncFns : chainAsync(Last, fn)
    \/ \E i \in 1..Len(nodes) : Then(i)
    \/ \E i \in 1..Len(nodes) : Resume(i)
    \/ \E i \in 1..Len(nodes) : run(i)
    \/ \E j \in 1..Len(runs) : RunSettle(j)

Spec == Init /\ [][Next]_vars

-----------------------------------------------------------------------------
(* Properties of a chain *)

RECURSIVE Ancestors(_)
\* the nodes a step was attached after: its parent, its parent's parent, ...
Ancestors(i) ==
    IF nodes[i].parent = 0 THEN {} ELSE {nodes[i].parent} \cup Ancestors(nodes[i].parent)

\* the running value after node a is a Failure made by err
Failed(a) == nodes[a].pc = "settled" /\ nodes[a].st = "fulfilled" /\ nodes[a].val.k = "err"

\* the running value after node a is a Success made by ok
Succeeded(a) == nodes[a].pc = "settled" /\ nodes[a].st = "fulfilled" /\ nodes[a].val.k = "ok"

\* C1: once the running value is a Failure after some step, the function or
\* predicate of every step attached after that step is never invoked: its call
\* counter stays at zero, whatever the operator (map, async, ensure, chain,
\* chainAsync) and whenever the step was attached.
ShortCircuit ==
    \A i \in 1..Len(nodes) :
        (\E a \in Ancestors(i) : Failed(a)) => nodes[i].calls = 0

\* C1 witness: an ensure step attached after a failed step has been passed over
ShortCircuitWitness ==
    \E i \in 1..Len(nodes) :
        /\ nodes[i].op = "ensure"
        /\ nodes[i].pc = "settled"
        /\ nodes[i].parent > 0
        /\ Failed(nodes[i].parent)
        /\ nodes[i].calls = 0

\* C2: a Failure is sticky and unmodified: if the running value is Failure(e)
\* after some step, every later step settles to Failure(e) with the same payload,
\* and run() on any of them fulfils with that same Failure(e).
FailureSticky ==
    /\ \A i \in 1..Len(nodes) : \A a \in Ancestors(i) :
          (Failed(a) /\ nodes[i].pc = "settled") =>
              (nodes[i].st = "fulfilled" /\ nodes[i].val = nodes[a].val)
    /\ \A j \in 1..Len(runs) : \A a \in Ancestors(runs[j].node) \cup {runs[j].node} :
          (Failed(a) /\ runs[j].pc = "settled") =>
              (runs[j].st = "fulfilled" /\ runs[j].val = nodes[a].val)

\* C2 witness: the first step failed, a second step (not a map) was attached after
\* it, and run() on the second step has delivered the first step's failure
FailureStickyWitness ==
    \E j \in 1..Len(runs) :
        /\ runs[j].pc = "settled"
        /\ runs[j].node = 3
        /\ Failed(2)
        /\ nodes[3].op \in {"ensure", "chain", "chainAsync"}
        /\ runs[j].val = nodes[2].val

\* C6: the promise returned by run() never rejects, also when the function or
\* predicate of a step throws: failures are delivered as Failure data.
RunNeverRejects == \A j \in 1..Len(runs) : runs[j].st # "rejected"

\* what calling the function of node i on the payload v does
StepCall(i, v) == Apply(nodes[i].fn, v)

\* C7: when the running value is Success(v) and the function given to chainAsync
\* throws x, or returns a promise that rejects with x, the running value becomes
\* Failure(x) and run() fulfils with Failure(x).
ChainAsyncAbsorbs ==
    \A i \in 1..Len(nodes) :
        (/\ nodes[i].op = "chainAsync"
         /\ nodes[i].pc = "settled"
         /\ Succeeded(nodes[i].parent)
         /\ LET c == StepCall(i, nodes[nodes[i].parent].val.data)
            IN  c.t = "throw" \/ (HasThen(c.val) /\ c.val.st = "rejected"))
        => LET c == StepCall(i, nodes[nodes[i].parent].val.data)
               x == IF c.t = "throw" THEN c.val ELSE c.val.val
           IN  /\ nodes[i].st = "fulfilled"
               /\ nodes[i].val = err(x)
               /\ \A j \in 1..Len(runs) :
                     (runs[j].node = i /\ runs[j].pc = "settled") =>
                         (runs[j].st = "fulfilled" /\ runs[j].val = err(x))

-----------------------------------------------------------------------------
(* Properties of Result.map called directly *)

\* what calling mfn on the receiver's payload does
FnCall == Apply(mfn, recv.data)

\* a value that is neither a promise nor tagged with a `success` field
PlainShape(x) == ~HasThen(x) /\ ~HasSuccess(x)

\* the shapes map's signature lets fn produce: a plain value, a Result, or a
\* promise of either (or a promise that rejects)
FourShapes(x) ==
    \/ PlainShape(x)
    \/ IsResult(x)
    \/ HasThen(x) /\ (x.st = "rejected" \/ PlainShape(x.val) \/ IsResult(x.val))

\* C3: map on a Failure(e) never invokes fn and returns a promise that fulfils
\* with the same Failure, carrying the same payload e.
FailureMapUntouched ==
    (recv.k = "err" /\ mout.pc # "idle") =>
        /\ mout.calls = 0
        /\ mout.ret = "promise"
        /\ mout.pc = "settled"
        /\ mout.st = "fulfilled"
        /\ mout.val = recv

\* C3 witness: map was called on a Failure with a function that would have thrown
FailureMapUntouchedWitness ==
    /\ recv = err(Str("E"))
    /\ mfn.f = "throw"
    /\ mout.pc = "settled"
    /\ mout.val = err(Str("E"))

\* C4: on a Success, when fn throws x, or returns a promise that rejects with x,
\* map's promise fulfils with a Failure whose payload is exactly x.
ExceptionAbsorbed ==
    (/\ recv.k = "ok"
     /\ mout.pc = "settled"
     /\ (FnCall.t = "throw" \/ (HasThen(FnCall.val) /\ FnCall.val.st = "rejected")))
    => /\ mout.st = "fulfilled"
       /\ mout.val = err(IF FnCall.t = "throw" THEN FnCall.val ELSE FnCall.val.val)

\* C4 witness: fn returned a promise that rejected with an Error, now the payload
ExceptionAbsorbedWitness ==
    /\ recv.k = "ok"
    /\ mfn = Fn("const", Deferred("rejected", ErrorObj("boom")))
    /\ mout.pc = "settled"
    /\ mout.val = err(ErrorObj("boom"))

MapFlattens ==
    (/\ recv.k = "ok"
     /\ mout.pc # "idle"
     /\ FnCall.t = "return"
     /\ IsResult(FnCall.val))
    => /\ mout.pc = "settled"
       /\ mout.st = "fulfilled"
       /\ mout.val = FnCall.val
       /\ mout.val # ok(FnCall.val)

\* C9 witness: fn returned Failure('F') and map delivered that Failure
MapFlattensWitness ==
    /\ recv.k = "ok"
    /\ mfn = Fn("const", err(Str("F")))
    /\ mout.pc = "settled"
    /\ mout.val = err(Str("F"))

\* the promise map returns when fn returns x synchronously
SyncOutcome(x) == SuccessImpl_map(recv.data, Fn("const", x))

\* C10: on a Success, when fn returns a promise that fulfils with x, map's promise
\* settles as it does when fn returns x synchronously: Success(x) for a plain x, x
\* itself when x is a Result.
DeferredMatchesSync ==
    (/\ recv.k = "ok"
     /\ mout.pc = "settled"
     /\ FnCall.t = "return"
     /\ HasThen(FnCall.val)
     /\ FnCall.val.st = "fulfilled")
    => LET x == FnCall.val.val
       IN  /\ mout.st = SyncOutcome(x).st
           /\ mout.val = SyncOutcome(x).val
           /\ PlainShape(x) => mout.val = ok(x)
           /\ IsResult(x) => mout.val = x

\* C10 witness: fn returned a promise of Success(2) and map delivered Success(2)
DeferredMatchesSyncWitness ==
    /\ recv.k = "ok"
    /\ mfn = Fn("const", Deferred("fulfilled", ok(Num(2))))
    /\ mout.pc = "settled"
    /\ mout.val = ok(Num(2))

-----------------------------------------------------------------------------
(* Properties of the single operators of a chain *)

\* the chains of Spec, under the name the properties of the single operators use
SpecSteps == Init /\ [][Next]_vars

\* the running value node i's callback was given: what its parent fulfilled with
Running(i) == nodes[nodes[i].parent].val

\* node i's callback has run on a Success
RanOnSuccess(i) ==
    /\ nodes[i].parent > 0
    /\ Succeeded(nodes[i].parent)
    /\ nodes[i].pc # "idle"

\* C11: when the running value is Success(v), ensure(predicate, errorValue)
\* evaluates predicate(v) exactly once; if it is true the running value stays
\* Success(v) unchanged, and if it is false it becomes Failure(errorValue).
EnsureOnSuccess ==
    \A i \in 1..Len(nodes) :
        /\ nodes[i].calls <= 1
        /\ (nodes[i].op = "ensure" /\ RanOnSuccess(i)) =>
              LET c == StepCall(i, Running(i).data)
              IN  /\ nodes[i].calls = 1
                  /\ (c.t = "return" /\ Truthy(c.val)) =>
                        (nodes[i].pc = "settled" /\ nodes[i].st = "fulfilled"
                            /\ nodes[i].val = Running(i))
                  /\ (c.t = "return" /\ ~Truthy(c.val)) =>
                        (nodes[i].pc = "settled" /\ nodes[i].st = "fulfilled"
                            /\ nodes[i].val = err(nodes[i].errorMsg))

\* C11 witness: x => x > 0 was false on Success(0) and the chain now holds Failure('E2')
EnsureOnSuccessWitness ==
    \E i \in 1..Len(nodes) :
        /\ nodes[i].op = "ensure"
        /\ nodes[i].fn.f = "positive"
        /\ RanOnSuccess(i)
        /\ Running(i) = ok(Num(0))
        /\ nodes[i].val = err(Str("E2"))
        /\ nodes[i].calls = 1

\* the Result the function of a chain or chainAsync step produced on the running
\* value: fn(v) for chain, what the promise fn(v) fulfilled with for chainAsync
ProducedResult(i) ==
    LET c == StepCall(i, Running(i).data)
    IN  IF nodes[i].op = "chain" THEN c.val ELSE c.val.val

\* the function of step i returned a Result (chain), or a promise that fulfilled
\* with a Result (chainAsync)
ProducesResult(i) ==
    LET c == StepCall(i, Running(i).data)
    IN  /\ c.t = "return"
        /\ IF nodes[i].op = "chain" THEN IsResult(c.val)
           ELSE HasThen(c.val) /\ c.val.st = "fulfilled" /\ IsResult(c.val.val)

\* C12: when the running value is Success(v), chain(fn) makes the running value
\* exactly the Result fn(v), and chainAsync(fn) exactly the Result the promise
\* fn(v) fulfils with; after a returned Success(u) the next step runs on u, and
\* after a returned Failure(f) the next step is passed over and keeps Failure(f).
ChainOnSuccess ==
    \A i \in 1..Len(nodes) :
        (/\ nodes[i].op \in {"chain", "chainAsync"}
         /\ RanOnSuccess(i)
         /\ nodes[i].pc = "settled"
         /\ ProducesResult(i))
        => /\ nodes[i].st = "fulfilled"
           /\ nodes[i].val = ProducedResult(i)
           /\ \A j \in 1..Len(nodes) :
                 (nodes[j].parent = i /\ nodes[j].pc # "idle") =>
                     IF ProducedResult(i).k = "ok"
                     THEN /\ nodes[j].calls = 1
                          /\ (nodes[j].op = "map" /\ nodes[j].fn.f = "inc" /\ nodes[j].pc = "settled")
                                => nodes[j].val = ok(Apply(nodes[j].fn, ProducedResult(i).data).val)
                     ELSE /\ nodes[j].calls = 0
                          /\ nodes[j].pc = "settled"
                          /\ nodes[j].st = "fulfilled"
                          /\ nodes[j].val = ProducedResult(i)

\* C12 witness: chainAsync's function gave a promise of Success(1) and the next
\* step, x => x + 1, ran on 1
ChainOnSuccessWitness ==
    \E i, j \in 1..Len(nodes) :
        /\ nodes[i].op = "chainAsync"
        /\ RanOnSuccess(i)
        /\ nodes[i].pc = "settled"
        /\ nodes[i].val = ok(Num(1))
        /\ nodes[j].parent = i
        /\ nodes[j].fn.f = "inc"
        /\ nodes[j].pc = "settled"
        /\ nodes[j].val = ok(Num(2))

\* C13: step functions are invoked in the order the steps were attached: whenever
\* the callback of a step has started (its function was invoked, or it was passed
\* over), the promise of every step attached before it has already settled, also
\* when that earlier step is asynchronous; a step whose predecessor is still
\* pending or awaiting has not been invoked.
StepOrder ==
    \A i \in 1..Len(nodes) :
        /\ (nodes[i].calls > 0 \/ nodes[i].pc # "idle") =>
              \A a \in Ancestors(i) : nodes[a].pc = "settled"
        /\ \A a \in Ancestors(i) : nodes[a].pc # "settled" => nodes[i].calls = 0

\* C13 witness: an async step awaited its promise, settled, and only then the
\* function of the step after it was invoked
StepOrderWitness ==
    \E i \in 1..Len(nodes) :
        /\ nodes[i].parent > 0
        /\ nodes[nodes[i].parent].op \in {"async", "chainAsync"}
        /\ nodes[nodes[i].parent].calls = 1
        /\ nodes[nodes[i].parent].pc = "settled"
        /\ nodes[i].calls = 1

-----------------------------------------------------------------------------
(* Chains of map steps only: Do(v).map(f1)...map(fn) *)

MapInitialValues == {Num(0), Num(1), Null, Obj("a"), Tagged(True, Obj("user"), Undefined)}

ComposedFns ==
    {Fn(f, Undefined) : f \in {"inc", "toStr", "id", "defer"}}
    \cup {Fn("const", x) : x \in {Num(0), Undefined}}

InitMaps ==
    /\ \E initialValue \in MapInitialValues : nodes = <<Do(initialValue)>>
    /\ runs = <<>>
    /\ recv = ok(Undefined)
    /\ mfn = Fn("none", Undefined)
    /\ mout = NotCalled

NextMaps ==
    \/ \E fn \in ComposedFns : map(Last, fn)
    \/ \E i \in 1..Len(nodes) : Then(i)
    \/ \E i \in 1..Len(nodes) : Resume(i)
    \/ \E i \in 1..Len(nodes) : run(i)
    \/ \E j \in 1..Len(runs) : RunSettle(j)

SpecMaps == InitMaps /\ [][NextMaps]_vars

RECURSIVE Composed(_)
\* fn(...f1(v)...): the functions of the steps up to node i applied in turn to the
\* initial value
Composed(i) ==
    IF nodes[i].parent = 0 THEN DataField(nodes[i].val)
    ELSE Apply(nodes[i].fn, Composed(nodes[i].parent)).val

RECURSIVE PlainMaps(_)
\* node i is Do(v) followed by map steps only, each function returning a plain
\* value (not a promise, not tagged with `success`) without throwing
PlainMaps(i) ==
    IF nodes[i].parent = 0 THEN TRUE
    ELSE /\ nodes[i].op = "map"
         /\ PlainMaps(nodes[i].parent)
         /\ Apply(nodes[i].fn, Composed(nodes[i].parent)).t = "return"
         /\ PlainShape(Composed(i))

-----------------------------------------------------------------------------
(* Repeated run() calls on one chain *)

NextRuns ==
    \/ \E fn \in {Fn("inc", Undefined), Fn("throw", Str("X"))} : map(Last, fn)
    \/ async(Last, Fn("defer", Undefined))
    \/ ensure(Last, Fn("positive", Undefined), Str("E1"))
    \/ chain(Last, Fn("check", Undefined))
    \/ chainAsync(Last, Fn("deferCheck", Undefined))
    \/ \E i \in 1..Len(nodes) : Then(i)
    \/ \E i \in 1..Len(nodes) : Resume(i)
    \/ \E i \in 1..Len(nodes) : RunCall(i, MaxRepeatedRuns)
    \/ \E j \in 1..Len(runs) : RunSettle(j)

SpecRuns == Init /\ [][NextRuns]_vars

\* the promises of two run() calls on the same chain settled alike
RunsAgree(j, k) ==
    (runs[j].node = runs[k].node /\ runs[j].pc = "settled" /\ runs[k].pc = "settled")
        => (runs[j].st = runs[k].st /\ runs[j].val = runs[k].val)

\* C15: run is idempotent: the promises of any two run() calls on the same chain
\* settle with the same Result; a run() call and the settling of its promise leave
\* the chain as it was and invoke no step function, so each step function is invoked
\* at most once per chain.
RunIdempotent ==
    /\ [](\A j, k \in 1..Len(runs) : RunsAgree(j, k))
    /\ [](\A i \in 1..Len(nodes) : nodes[i].calls <= 1)
    /\ [][runs' # runs => nodes' = nodes]_vars

\* C15 witness: two run() calls on Do(v).map(x => x + 1) both gave the Success of
\* the one invocation of the function
RunIdempotentWitness ==
    \E j, k \in 1..Len(runs) :
        /\ j < k
        /\ runs[j].node = 2 /\ runs[k].node = 2
        /\ nodes[2].op = "map" /\ nodes[2].fn.f = "inc" /\ nodes[2].calls = 1
        /\ runs[j].pc = "settled" /\ runs[k].pc = "settled"
        /\ runs[j].val.k = "ok" /\ runs[k].val = runs[j].val

-----------------------------------------------------------------------------
(* Chains derived from one chain: an operator may be called on any ResultChain made
   so far, not only on the one the last operator returned *)

NextTree ==
    \/ \E p \in 1..Len(nodes), fn \in {Fn("inc", Undefined), Fn("throw", Str("X"))} : map(p, fn)
    \/ \E p \in 1..Len(nodes) : async(p, Fn("defer", Undefined))
    \/ \E p \in 1..Len(nodes) : ensure(p, Fn("positive", Undefined), Str("E1"))
    \/ \E p \in 1..Len(nodes) : chain(p, Fn("check", Undefined))
    \/ \E p \in 1..Len(nodes) : chainAsync(p, Fn("deferCheck", Undefined))
    \/ \E i \in 1..Len(nodes) : Then(i)
    \/ \E i \in 1..Len(nodes) : Resume(i)
    \/ \E i \in 1..Len(nodes) : run(i)
    \/ \E j \in 1..Len(runs) : RunSettle(j)

SpecTree == Init /\ [][NextTree]_vars

\* the promise a step's callback returned, one settling of what it waits for later
Resumed(op, c) ==
    IF c.pc = "adopt" THEN Adopted(c.val)
    ELSE IF c.pc = "await"
         THEN IF op = "chainAsync" THEN chainAsync_resume(c.val) ELSE SuccessImpl_map_resume(c.val)
    ELSE [pc |-> c.pc, st |-> c.st, val |-> c.val]

\* how the promise of node i settles, from its own step and the settled promise of
\* the chain it was derived from alone
OwnOutcome(i) ==
    LET parent == nodes[nodes[i].parent]
    IN  IF parent.st = "rejected" THEN Settled("rejected", parent.val)
        ELSE Resumed(nodes[i].op, Resumed(nodes[i].op, Callback(i, parent.val)))

\* C16: an operator called on a chain c makes a new chain and leaves c, and every
\* other chain made so far, as it was; a settled chain never changes, so c.run()
\* gives the same Result before and after; and a chain derived from c settles as
\* its own step decides on c's Result, whatever other chains were derived from c.
BuilderImmutable ==
    /\ [][\A i \in 1..Len(nodes) :
            /\ i <= Len(nodes')
            /\ Len(nodes') > Len(nodes) => nodes'[i] = nodes[i]
            /\ nodes[i].pc = "settled" => nodes'[i] = nodes[i]]_vars
    /\ [](\A j \in 1..Len(runs) :
            runs[j].pc = "settled" =>
                (runs[j].st = nodes[runs[j].node].st /\ runs[j].val = nodes[runs[j].node].val))
    /\ [](\A i \in 2..Len(nodes) :
            nodes[i].pc = "settled" =>
                (nodes[i].st = OwnOutcome(i).st /\ nodes[i].val = OwnOutcome(i).val))

\* C16 witness: two chains were derived from Do(0); one failed, the other
\* succeeded, and run() on Do(0) gave Success(0)
BuilderImmutableWitness ==
    /\ Len(nodes) = 3
    /\ nodes[2].parent = 1 /\ nodes[3].parent = 1
    /\ Failed(2) /\ Succeeded(3)
    /\ \E j \in 1..Len(runs) :
          runs[j].node = 1 /\ runs[j].pc = "settled" /\ runs[j].val = ok(Num(0))

-----------------------------------------------------------------------------
(* The observable states of a chain *)

\* C17: at every point of every chain the wrapped promise, once settled, is
\* fulfilled with a Success made by ok or a Failure made by err: it is never
\* rejected, and never fulfilled with anything else.
TwoStates ==
    \A i \in 1..Len(nodes) :
        nodes[i].pc = "settled" => (nodes[i].st = "fulfilled" /\ IsResult(nodes[i].val))

-----------------------------------------------------------------------------
(* Result.mapAsync called directly on a Result *)

\* recv.mapAsync(mfn)
CallMapAsync ==
    /\ mout.pc = "idle"
    /\ mout' = IF recv.k = "ok" THEN SuccessImpl_mapAsync(recv.data, mfn)
               ELSE FailureImpl_mapAsync(recv, mfn)
    /\ UNCHANGED <<recv, mfn, nodes, runs>>

NextMapAsync == CallMapAsync \/ ResumeMap

SpecMapAsync == InitResult /\ [][NextMapAsync]_vars

\* fn returns a promise whatever it is given
DeferredReturning(fn) == fn.f \in {"defer", "deferWrap"} \/ (fn.f = "const" /\ HasThen(fn.arg))

\* what recv.map(mfn) evaluates to, and what its promise settles with
MapOfRecv == IF recv.k = "ok" THEN SuccessImpl_map(recv.data, mfn) ELSE FailureImpl_map(recv, mfn)

\* C18: for a Success or Failure r and a function fn returning a promise,
\* r.mapAsync(fn) does what r.map(fn) does: it returns a promise, and that promise
\* settles with the Result the promise of r.map(fn) settles with.
MapAsyncIsMap ==
    (DeferredReturning(mfn) /\ mout.pc # "idle") =>
        /\ mout.ret = "promise"
        /\ mout.ret = MapOfRecv.ret
        /\ mout.pc = "settled" =>
              LET m == Resumed("map", MapOfRecv)
              IN  mout.st = m.st /\ mout.val = m.val

-----------------------------------------------------------------------------
(* The validation pipeline of the README:
   Do(input).map(UserSchema.safeParse).map(p => zodToResult(p)).chain(g).run() *)

ReadmeInputs == {Obj("user"), Str("bad"), Num(0), Null}

InitReadme ==
    /\ \E input \in ReadmeInputs : nodes = <<Do(input)>>
    /\ runs = <<>>
    /\ recv = ok(Undefined)
    /\ mfn = Fn("none", Undefined)
    /\ mout = NotCalled

NextReadme ==
    \/ \E f \in {"safeParse", "safeParseAsync", "zodToResult"} : map(Last, Fn(f, Undefined))
    \/ chain(Last, Fn("greet", Undefined))
    \/ \E i \in 1..Len(nodes) : Then(i)
    \/ \E i \in 1..Len(nodes) : Resume(i)
    \/ \E i \in 1..Len(nodes) : run(i)
    \/ \E j \in 1..Len(runs) : RunSettle(j)

SpecReadme == InitReadme /\ [][NextReadme]_vars

\* node i is the second map of the pipeline: Do(input).map(parse).map(zodToResult)
SecondMap(i) ==
    /\ nodes[i].op = "map" /\ nodes[i].fn.f = "zodToResult"
    /\ nodes[i].parent > 0
    /\ nodes[nodes[i].parent].op = "map"
    /\ nodes[nodes[i].parent].fn.f \in {"safeParse", "safeParseAsync"}
    /\ nodes[nodes[i].parent].parent = 1

\* the validation result of the pipeline's input
Parsed == safeParse(DataField(nodes[1].val))

\* C19: in Do(input).map(parse).map(p => zodToResult(p)).chain(g).run() the second
\* map's function is invoked, once, with the validation result parse returned, and
\* the running value after it is what zodToResult makes of the validation result;
\* after chain(g) the running value, and what run() fulfils with, is g's Result
\* when the validation succeeded and the Failure of the validation error when not.
ReadmePipeline ==
    \A i \in 1..Len(nodes) :
        (SecondMap(i) /\ nodes[i].pc = "settled") =>
            /\ nodes[i].calls = 1
            /\ nodes[i].st = "fulfilled"
            /\ nodes[i].val = zodToResult(Parsed)
            /\ \A j \in 1..Len(runs) :
                  (runs[j].node = i /\ runs[j].pc = "settled") =>
                      (runs[j].st = "fulfilled" /\ runs[j].val = zodToResult(Parsed))
            /\ \A c \in 1..Len(nodes) :
                  (nodes[c].parent = i /\ nodes[c].op = "chain" /\ nodes[c].pc = "settled") =>
                      /\ nodes[c].st = "fulfilled"
                      /\ nodes[c].val = IF Truthy(Parsed.success) THEN ok(Str("Hello"))
                                        ELSE err(Parsed.error)

-----------------------------------------------------------------------------
(* The type guards isOk and isErr called on a Result *)

GuardReceivers ==
    {ok(v) : v \in SyncValues \cup DeferredValues} \cup {err(v) : v \in SyncValues \cup DeferredValues}

InitGuards ==
    /\ recv \in GuardReceivers
    /\ mfn = Fn("none", Undefined)
    /\ mout = NotCalled
    /\ nodes = <<>>
    /\ runs = <<>>

\* isOk(recv)
CallIsOk ==
    /\ mout.ret # "isOk"
    /\ mout' = Call("isOk", Resolved(isOk(recv)), 0)
    /\ UNCHANGED <<recv, mfn, nodes, runs>>

\* isErr(recv)
CallIsErr ==
    /\ mout.ret # "isErr"
    /\ mout' = Call("isErr", Resolved(isErr(recv)), 0)
    /\ UNCHANGED <<recv, mfn, nodes, runs>>

NextGuards == CallIsOk \/ CallIsErr

SpecGuards == InitGuards /\ [][NextGuards]_vars

\* C20: isOk(ok(v)) is true and isErr(ok(v)) is false, isOk(err(v)) is false and
\* isErr(err(v)) is true, for every v; so exactly one of the two holds of a Result.
Discriminators ==
    /\ mout.ret = "isOk" => mout.val = (IF recv.k = "ok" THEN True ELSE False)
    /\ mout.ret = "isErr" => mout.val = (IF recv.k = "err" THEN True ELSE False)
    /\ {isOk(recv), isErr(recv)} = {True, False}

\* C20 witness: isErr was called on a Failure whose payload is itself a Success,
\* and said true
DiscriminatorsWitness ==
    /\ recv = err(ok(Num(2)))
    /\ mout.ret = "isErr"
    /\ mout.val = True

-----------------------------------------------------------------------------
(* zodToResult called on a validation result {success, data?, error?}; a field
   that is absent reads as undefined *)

ZodData == {Undefined, Null, Num(0), Num(1), Str(""), False, Obj("a")}

ZodErrors == {Undefined, Null, Str(""), Num(0), False, Str("X"), ErrorObj("zod")}

ZodResults == {Tagged(s, d, e) : s \in {True, False}, d \in ZodData, e \in ZodErrors}

InitZod ==
    /\ recv \in ZodResults
    /\ mfn = Fn("none", Undefined)
    /\ mout = NotCalled
    /\ nodes = <<>>
    /\ runs = <<>>

\* zodToResult(recv)
CallZodToResult ==
    /\ mout.pc = "idle"
    /\ mout' = Call("value", Resolved(zodToResult(recv)), 0)
    /\ UNCHANGED <<recv, mfn, nodes, runs>>

NextZod == CallZodToResult

SpecZod == InitZod /\ [][NextZod]_vars

\* new Error("Validation failed")
DefaultValidationError == ErrorObj("Validation failed")

ErrorSelection ==
    (mout.pc = "settled" /\ mout.val.k # "ok") =>
        mout.val = err(IF Nullish(recv.error) THEN DefaultValidationError ELSE recv.error)

-----------------------------------------------------------------------------
(* utils.ts: toPromise called on a Result *)

\* Promise.resolve(x): x itself when x is a promise, else a promise fulfilled with x
PromiseResolved(x) == IF HasThen(x) THEN Settled(x.st, x.val) ELSE Settled("fulfilled", x)

\* Promise.reject(x): a promise rejected with x, whatever x is
PromiseRejected(x) == Settled("rejected", x)

\* toPromise fulfilling with the error of a Failure
toPromise_resolves_failure(result) ==
    IF Truthy(isOk(result)) THEN PromiseResolved(result.data) ELSE PromiseResolved(result.error)

\* toPromise: Promise.resolve(result.data) for a Success, Promise.reject(result.error)
\* for a Failure
toPromise(result) ==
    IF Truthy(isOk(result)) THEN PromiseResolved(result.data) ELSE PromiseRejected(result.error)

InitToPromise ==
    /\ recv \in GuardReceivers
    /\ mfn = Fn("none", Undefined)
    /\ mout = NotCalled
    /\ nodes = <<>>
    /\ runs = <<>>

\* toPromise(recv)
CallToPromise ==
    /\ mout.pc = "idle"
    /\ mout' = Call("promise", toPromise(recv), 0)
    /\ UNCHANGED <<recv, mfn, nodes, runs>>

NextToPromise == CallToPromise

SpecToPromise == InitToPromise /\ [][NextToPromise]_vars

\* toPromise rejects with exactly the error of a Failure
RejectsOnFailure ==
    (mout.pc = "settled" /\ recv.k = "err") => (mout.st = "rejected" /\ mout.val = recv.error)

\* C23 as stated: toPromise(Success(v)) fulfils with v for every v, and
\* toPromise(Failure(e)) rejects with exactly e.
ToPromiseEveryValue ==
    /\ (mout.pc = "settled" /\ recv.k = "ok") => (mout.st = "fulfilled" /\ mout.val = recv.data)
    /\ RejectsOnFailure

\* C23 amended: toPromise(Success(v)) fulfils with v when v is not a promise, and
\* settles as v does when v is a promise; toPromise(Failure(e)) rejects with
\* exactly e, also when e is a promise.
ToPromiseSemantics ==
    /\ (mout.pc = "settled" /\ recv.k = "ok" /\ ~HasThen(recv.data))
          => (mout.st = "fulfilled" /\ mout.val = recv.data)
    /\ (mout.pc = "settled" /\ recv.k = "ok" /\ HasThen(recv.data))
          => (mout.st = recv.data.st /\ mout.val = recv.data.val)
    /\ RejectsOnFailure

\* C23 witness: toPromise on a Success whose payload is a rejected promise rejected
\* as the payload did
ToPromiseSemanticsWitness ==
    /\ recv = ok(Deferred("rejected", Str("X")))
    /\ mout.pc = "settled"
    /\ mout.st = "rejected"
    /\ mout.val = Str("X")

-----------------------------------------------------------------------------
(* utils.ts: fromPromise called on a promise *)

\* fromPromise without its try/catch: the rejection of the awaited promise is the
\* rejection of the returned one
fromPromise_resume_uncaught(promise) ==
    IF promise.st = "rejected" THEN Settled("rejected", promise.val) ELSE Resolved(ok(promise.val))

\* fromPromise from `await promise` on, once the promise has settled
fromPromise_resume(promise) ==
    IF promise.st = "rejected" THEN Resolved(err(promise.val)) ELSE Resolved(ok(promise.val))

\* fromPromise up to `await promise`
fromPromise(promise) == Call("promise", Awaiting(promise), 0)

\* promises fulfilled with a value or rejected with a value of any type, a promise
\* included
SettledPromises ==
    DeferredValues
    \cup {Deferred("rejected", x) : x \in SyncValues \cup {Deferred("fulfilled", Num(1))}}

InitFromPromise ==
    /\ recv \in SettledPromises
    /\ mfn = Fn("none", Undefined)
    /\ mout = NotCalled
    /\ nodes = <<>>
    /\ runs = <<>>

\* fromPromise(recv)
CallFromPromise ==
    /\ mout.pc = "idle"
    /\ mout' = fromPromise(recv)
    /\ UNCHANGED <<recv, mfn, nodes, runs>>

\* the promise awaited inside fromPromise settles and the function goes on
ResumeFromPromise ==
    /\ mout.pc = "await"
    /\ mout' = Call(mout.ret, fromPromise_resume(mout.val), mout.calls)
    /\ UNCHANGED <<recv, mfn, nodes, runs>>

NextFromPromise == CallFromPromise \/ ResumeFromPromise

SpecFromPromise == InitFromPromise /\ [][NextFromPromise]_vars

\* C24: fromPromise(p) never rejects: it fulfils with Success(v) when p fulfils
\* with v, and with Failure(x), carrying exactly x, when p rejects with x, whatever
\* x is.
FromPromiseNeverRejects ==
    /\ mout.st # "rejected"
    /\ mout.pc = "settled" =>
          /\ mout.st = "fulfilled"
          /\ mout.val = IF recv.st = "fulfilled" THEN ok(recv.val) ELSE err(recv.val)

\* C24 witness: fromPromise on a promise rejected with undefined fulfilled with
\* Failure(undefined)
FromPromiseNeverRejectsWitness ==
    /\ recv = Deferred("rejected", Undefined)
    /\ mout.pc = "settled"
    /\ mout.st = "fulfilled"
    /\ mout.val = err(Undefined)

-----------------------------------------------------------------------------
(* utils.ts: mapPromiseResult and mapAsyncPromiseResult called on a promise of a
   Result; mout.ret names the function that was called *)

\* result.map(fn)
ResultMap(result, fn) ==
    IF result.k = "ok" THEN SuccessImpl_map(result.data, fn) ELSE FailureImpl_map(result, fn)

\* result.mapAsync(fn)
ResultMapAsync(result, fn) ==
    IF result.k = "ok" THEN SuccessImpl_mapAsync(result.data, fn)
    ELSE FailureImpl_mapAsync(result, fn)

\* `return x` in an async function: the function's promise follows x when x is a
\* promise, and fulfils with x when it is not
AsyncReturn(call) ==
    IF call.ret = "promise" THEN [pc |-> call.pc, st |-> call.st, val |-> call.val]
    ELSE Resolved(call.val)

\* the two functions treating a Failure like a Success: fn is applied to its error
PromiseResult_resume_maps_failure(util, promiseResult, fn) ==
    IF promiseResult.st = "rejected" THEN Call(util, Settled("rejected", promiseResult.val), 0)
    ELSE LET result == promiseResult.val
             call == SuccessImpl_map(IF result.k = "ok" THEN result.data ELSE result.error, fn)
         IN  Call(util, AsyncReturn(call), call.calls)

\* mapPromiseResult / mapAsyncPromiseResult from `await promiseResult` on, once the
\* promise has settled: return result.map(fn) / return result.mapAsync(fn)
PromiseResult_resume(util, promiseResult, fn) ==
    IF promiseResult.st = "rejected" THEN Call(util, Settled("rejected", promiseResult.val), 0)
    ELSE LET result == promiseResult.val
             call == IF util = "mapPromiseResult" THEN ResultMap(result, fn)
                     ELSE ResultMapAsync(result, fn)
         IN  Call(util, AsyncReturn(call), call.calls)

PromiseResults ==
    {Deferred("fulfilled", r) : r \in Receivers} \cup {Deferred("rejected", Str("X"))}

InitPromiseResult ==
    /\ recv \in PromiseResults
    /\ mfn \in MapFns
    /\ mout = NotCalled
    /\ nodes = <<>>
    /\ runs = <<>>

\* mapPromiseResult(recv, mfn), up to `await promiseResult`
mapPromiseResult ==
    /\ mout.pc = "idle"
    /\ mout' = Call("mapPromiseResult", [pc |-> "awaitResult", st |-> "pending", val |-> recv], 0)
    /\ UNCHANGED <<recv, mfn, nodes, runs>>

\* mapAsyncPromiseResult(recv, mfn), up to `await promiseResult`
mapAsyncPromiseResult ==
    /\ mout.pc = "idle"
    /\ mout' = Call("mapAsyncPromiseResult", [pc |-> "awaitResult", st |-> "pending", val |-> recv], 0)
    /\ UNCHANGED <<recv, mfn, nodes, runs>>

\* promiseResult settles and the function goes on
ResumePromiseResult ==
    /\ mout.pc = "awaitResult"
    /\ mout' = PromiseResult_resume(mout.ret, mout.val, mfn)
    /\ UNCHANGED <<recv, mfn, nodes, runs>>

NextPromiseResult ==
    \/ mapPromiseResult
    \/ mapAsyncPromiseResult
    \/ ResumePromiseResult
    \/ ResumeMap

SpecPromiseResult == InitPromiseResult /\ [][NextPromiseResult]_vars

\* C25: for a promise p that fulfils with a Result r, mapPromiseResult(p, fn) and
\* mapAsyncPromiseResult(p, fn) fulfil with the Result r.map(fn) resolves to, and
\* invoke fn as often as r.map(fn) does: not at all, keeping the Failure, when r is
\* a Failure; a Result fn returns is flattened; what fn throws becomes the payload
\* of a Failure.
PromiseResultIsMap ==
    (recv.st = "fulfilled" /\ mout.pc = "settled") =>
        LET r == recv.val
            m == Resumed("map", ResultMap(r, mfn))
            c == Apply(mfn, r.data)
        IN  /\ mout.st = m.st /\ mout.val = m.val
            /\ mout.calls = ResultMap(r, mfn).calls
            /\ r.k = "err" => (mout.calls = 0 /\ mout.st = "fulfilled" /\ mout.val = r)
            /\ (r.k = "ok" /\ c.t = "throw") => (mout.st = "fulfilled" /\ mout.val = err(c.val))
            /\ (r.k = "ok" /\ c.t = "return" /\ IsResult(c.val)) =>
                  (mout.st = "fulfilled" /\ mout.val = c.val)

\* C25 witness: mapAsyncPromiseResult on a promise of a Failure fulfilled with
\* that Failure without invoking fn
PromiseResultIsMapWitness ==
    /\ recv = Deferred("fulfilled", err(Str("E")))
    /\ mfn = Fn("defer", Undefined)
    /\ mout.ret = "mapAsyncPromiseResult"
    /\ mout.pc = "settled"
    /\ mout.val = err(Str("E"))
    /\ mout.calls = 0

-----------------------------------------------------------------------------
(* Two chains over independent initial values, built and run concurrently: the
   steps of the two interleave freely *)

\* an operator called on chain p while two chains are being built
AttachConcurrent(p, op, fn, errorMsg) ==
    /\ Len(nodes) < MaxConcurrentNodes
    /\ nodes' = Append(nodes, Node(p, op, fn, errorMsg, Idle, 0))
    /\ UNCHANGED <<runs, recv, mfn, mout>>

\* the ResultChain the last operator of some chain returned
IsLast(p) == \A i \in 1..Len(nodes) : nodes[i].parent # p

\* callbacks reading a slot shared by all chains: the promise that settled last,
\* of whichever chain
Then_shared(i) ==
    /\ nodes[i].pc = "idle"
    /\ nodes[i].parent > 0
    /\ nodes[nodes[i].parent].pc = "settled"
    /\ LET n == nodes[i]
           settled == {a \in 1..Len(nodes) : nodes[a].pc = "settled"}
           shared == nodes[CHOOSE a \in settled : \A b \in settled : b <= a]
           c == Callback(i, shared.val)
       IN  nodes' = [nodes EXCEPT ![i] =
                IF shared.st = "rejected"
                THEN Node(n.parent, n.op, n.fn, n.errorMsg, Settled("rejected", shared.val), n.calls)
                ELSE Node(n.parent, n.op, n.fn, n.errorMsg, c, n.calls + c.calls)]
    /\ UNCHANGED <<runs, recv, mfn, mout>>

\* then() on the promise of node i's parent, as in Then
ThenConcurrent(i) == Then(i)

InitConcurrent ==
    /\ nodes = <<Do(Num(0)), Do(Num(1))>>
    /\ runs = <<>>
    /\ recv = ok(Undefined)
    /\ mfn = Fn("none", Undefined)
    /\ mout = NotCalled

NextConcurrent ==
    \/ \E p \in 1..Len(nodes) : IsLast(p) /\ AttachConcurrent(p, "map", Fn("inc", Undefined), Undefined)
    \/ \E p \in 1..Len(nodes) : IsLast(p) /\ AttachConcurrent(p, "async", Fn("defer", Undefined), Undefined)
    \/ \E p \in 1..Len(nodes) :
          IsLast(p) /\ AttachConcurrent(p, "ensure", Fn("positive", Undefined), Str("E1"))
    \/ \E p \in 1..Len(nodes) : IsLast(p) /\ AttachConcurrent(p, "chain", Fn("check", Undefined), Undefined)
    \/ \E p \in 1..Len(nodes) :
          IsLast(p) /\ AttachConcurrent(p, "chainAsync", Fn("deferCheck", Undefined), Undefined)
    \/ \E i \in 1..Len(nodes) : ThenConcurrent(i)
    \/ \E i \in 1..Len(nodes) : Resume(i)
    \/ \E i \in 1..Len(nodes) : IsLast(i) /\ run(i)
    \/ \E j \in 1..Len(runs) : RunSettle(j)

SpecConcurrent == InitConcurrent /\ [][NextConcurrent]_vars

RECURSIVE RootOf(_)
\* the chain node i belongs to, named by the node Do made
RootOf(i) == IF nodes[i].parent = 0 THEN i ELSE RootOf(nodes[i].parent)

RECURSIVE Alone(_)
\* how the promise of node i settles when its chain runs alone: its steps applied
\* in turn from the initial value
Alone(i) ==
    IF nodes[i].parent = 0 THEN Settled("fulfilled", nodes[i].val)
    ELSE LET before == Alone(nodes[i].parent)
         IN  IF before.st = "rejected" THEN Settled("rejected", before.val)
             ELSE Resumed(nodes[i].op, Resumed(nodes[i].op, Callback(i, before.val)))

\* C26: when two chains over independent initial values run concurrently, their
\* steps interleaved, the promise of every step of each chain, and of each run(),
\* settles as it does when that chain runs alone.
ChainsIsolated ==
    /\ \A i \in 1..Len(nodes) :
          nodes[i].pc = "settled" => (nodes[i].st = Alone(i).st /\ nodes[i].val = Alone(i).val)
    /\ \A j \in 1..Len(runs) :
          runs[j].pc = "settled" =>
              (runs[j].st = Alone(runs[j].node).st /\ runs[j].val = Alone(runs[j].node).val)

\* C26 witness: a step of the chain on 1 was suspended on its deferred value while
\* the chain on 0 failed; it then resumed and gave Success(1), which run() returned
ChainsIsolatedWitness ==
    /\ Len(nodes) = 4
    /\ nodes[1].val = ok(Num(0)) /\ nodes[2].val = ok(Num(1))
    /\ \E a, b \in 3..4 :
          /\ RootOf(a) = 1 /\ RootOf(b) = 2
          /\ Failed(a)
          /\ nodes[b].op = "async" /\ nodes[b].pc = "settled" /\ nodes[b].val = ok(Num(1))
          /\ \E j \in 1..Len(runs) : runs[j].node = b /\ runs[j].pc = "settled" /\ runs[j].val = ok(Num(1))

-----------------------------------------------------------------------------
(* Result.map with the identity function *)

\* x => x was given to map on a Success, and map's promise has settled
IdentityMapped == recv.k = "ok" /\ mfn.f = "id" /\ mout.pc = "settled"

-----------------------------------------------------------------------------
(* Result.map with functions that return falsy values *)

\* null, undefined, 0, false and the empty string
FalsyValues == {Null, Undefined, Num(0), False, Str("")}

\* C28: on a Success, when fn returns null, undefined, 0, false or '', itself or
\* through a promise that fulfils with it, map's promise fulfils with a Success
\* carrying exactly that value: inspecting its shape neither throws nor gives a
\* Failure.
FalsyWrapped ==
    (recv.k = "ok" /\ mout.pc # "idle" /\ FnCall.t = "return") =>
        /\ FnCall.val \in FalsyValues =>
              (mout.pc = "settled" /\ mout.st = "fulfilled" /\ mout.val = ok(FnCall.val))
        /\ (/\ HasThen(FnCall.val)
            /\ FnCall.val.st = "fulfilled"
            /\ FnCall.val.val \in FalsyValues
            /\ mout.pc = "settled")
              => (mout.st = "fulfilled" /\ mout.val = ok(FnCall.val.val))

\* C28 witness: fn returned a promise of null and map gave Success(null)
FalsyWrappedWitness ==
    /\ recv.k = "ok"
    /\ mfn = Fn("const", Deferred("fulfilled", Null))
    /\ mout.pc = "settled"
    /\ mout.val = ok(Null)

-----------------------------------------------------------------------------
(* When the steps of a chain execute. The callbacks registered by then() and the
   continuations after an await are jobs of the microtask queue, which the engine
   runs until it is empty: a job that is ready is not postponed for ever. No such
   thing holds of the calls the program makes: it may never call run(). In one
   chain at most one job is ready at a time, the callback or continuation of the
   first step that has not settled, so fairness to the queue is fairness to it. *)

NextEager ==
    \/ \E fn \in {Fn("inc", Undefined), Fn("throw", Str("X"))} : map(Last, fn)
    \/ async(Last, Fn("defer", Undefined))
    \/ ensure(Last, Fn("positive", Undefined), Str("E1"))
    \/ chain(Last, Fn("check", Undefined))
    \/ chainAsync(Last, Fn("deferCheck", Undefined))
    \/ \E i \in 1..Len(nodes) : Then(i)
    \/ \E i \in 1..Len(nodes) : Resume(i)
    \/ \E i \in 1..Len(nodes) : run(i)
    \/ \E j \in 1..Len(runs) : RunSettle(j)

\* step i has been attached
Attached(i) == i <= Len(nodes)

\* the callback of step i has run to its end: its promise has settled, and its
\* function was invoked if the running value before it was a Success
Executed(i) ==
    /\ nodes[i].pc = "settled"
    /\ (nodes[i].parent > 0 /\ Succeeded(nodes[i].parent)) => nodes[i].calls = 1

SpecEager ==
    /\ Init
    /\ [][NextEager]_vars
    /\ WF_vars(\E i \in 1..Len(nodes) : Then(i))
    /\ WF_vars(\E i \in 1..Len(nodes) : Resume(i))

\* C29: the steps of a chain execute eagerly: once a step is attached, its
\* callback runs and its promise settles, and when the running value before it is
\* a Success its function is invoked, whether or not run() is ever called; a run()
\* call, and the settling of its promise, execute no step.
EagerExecution ==
    /\ (\E i \in 1..Len(nodes) : ~Executed(i)) ~> (\A i \in 1..Len(nodes) : Executed(i))
    /\ [][runs' # runs => nodes' = nodes]_vars

\* C29 witness: the function of a step was invoked, and the step after it settled,
\* while run() had not been called
EagerExecutionWitness ==
    /\ runs = <<>>
    /\ Len(nodes) = 3
    /\ nodes[2].calls = 1
    /\ nodes[3].calls = 1
    /\ nodes[3].pc = "settled"

-----------------------------------------------------------------------------
(* Chains whose ensure predicate or chain function throws *)

NextThrowing ==
    \/ map(Last, Fn("inc", Undefined))
    \/ async(Last, Fn("defer", Undefined))
    \/ \E predicate \in {Fn("positive", Undefined), Fn("throw", Str("X"))} :
          ensure(Last, predicate, Str("E1"))
    \/ \E fn \in {Fn("check", Undefined), Fn("throw", ErrorObj("boom"))} : chain(Last, fn)
    \/ chainAsync(Last, Fn("deferCheck", Undefined))
    \/ \E i \in 1..Len(nodes) : Then(i)
    \/ \E i \in 1..Len(nodes) : Resume(i)
    \/ \E i \in 1..Len(nodes) : run(i)
    \/ \E j \in 1..Len(runs) : RunSettle(j)

SpecThrowing == Init /\ [][NextThrowing]_vars

\* the predicate of ensure step i, or the function of chain step i, was called on
\* a Success and threw
ThrewOnSuccess(i) ==
    /\ nodes[i].op \in {"ensure", "chain"}
    /\ RanOnSuccess(i)
    /\ StepCall(i, Running(i).data).t = "throw"

\* C30: when the running value is a Success and the predicate of an ensure step or
\* the function of a chain step throws x, the wrapped promise of that step rejects
\* with x; the function of every later step is never invoked and its promise
\* rejects with x; and run() on any of them rejects with exactly x.
RejectionPropagates ==
    \A i \in 1..Len(nodes) :
        ThrewOnSuccess(i) =>
            LET x == StepCall(i, Running(i).data).val
            IN  /\ nodes[i].pc = "settled" /\ nodes[i].st = "rejected" /\ nodes[i].val = x
                /\ \A d \in 1..Len(nodes) :
                      i \in Ancestors(d) =>
                          /\ nodes[d].calls = 0
                          /\ nodes[d].pc \in {"idle", "settled"}
                          /\ nodes[d].pc = "settled" => (nodes[d].st = "rejected" /\ nodes[d].val = x)
                /\ \A j \in 1..Len(runs) :
                      (runs[j].pc = "settled" /\ (runs[j].node = i \/ i \in Ancestors(runs[j].node)))
                          => (runs[j].st = "rejected" /\ runs[j].val = x)

\* C30 witness: the function of a chain step threw on Success(1); the map step
\* after it was not invoked, and run() on it rejected with what was thrown
RejectionPropagatesWitness ==
    /\ Len(nodes) = 3
    /\ nodes[1].val = ok(Num(1))
    /\ nodes[2].op = "chain" /\ nodes[2].fn = Fn("throw", ErrorObj("boom"))
    /\ nodes[3].op = "map" /\ nodes[3].calls = 0
    /\ \E j \in 1..Len(runs) :
          /\ runs[j].node = 3
          /\ runs[j].pc = "settled"
          /\ runs[j].st = "rejected"
          /\ runs[j].val = ErrorObj("boom")

=============================================================================
